---- MODULE Spec2Model ----
(***************************************************************************)
(* Smart proctoring system: the hash-chained audit ledger                  *)
(* (table blockchain_logs), its verifier, and the exam-session page that   *)
(* turns browser / monitor signals into log and terminate requests.        *)
(*                                                                         *)
(* The table definitions and the React page are translated from the        *)
(* sources.  The server-side services (append, verify, the attempt         *)
(* endpoints) are not among the sources; they follow the design document   *)
(* and are marked as such where they are defined.                          *)
(***************************************************************************)
EXTENDS Integers, Sequences, FiniteSets, TLC

(***************************************************************************)
(* Bounds of the model                                                     *)
(***************************************************************************)
NumWriters == 2
MaxBlocks == 3
MaxClock == 1
MaxRetries == 1
ConfidenceSteps == 4
MaxGenesisRuns == 2
NumReportAttempts == 3
MaxReportEvents == 3
ReportSteps == 2
NumStudents == 2
NumExams == 1
NumStarters == 2
MaxAttemptRows == 3
MaxKeystrokes == 102
MaxMovements == 202
MaxTampered == 2
MaxSpeed == 3
ExamSeconds == 3
NumQuestions == 2
NumOptions == 2
MaxSubmits == 2

(***************************************************************************)
(* Program constants                                                       *)
(***************************************************************************)
VerifyLimit == 1000
\* width of the hash columns and length of the genesis hash literal
HashColumnWidth == 64
GenesisHashLength == 68
\* advancedProctoring.js: sample sizes of the baselines and buffer limits
BaselineKeystrokes == 50
KeystrokeBufferLimit == 100
BaselineMovements == 100
MouseBufferLimit == 200
\* StressMonitor: length of the mindfulness break in seconds
BreakSeconds == 30

Writers == 1..NumWriters
Attempts == {1}

\* the two table definitions of blockchain_logs that a deployment can run
\* (backend/README.md "Database Setup": option 1 and option 2)
Schemas == {"manual_setup", "schema_sql"}

Payloads == {"p1", "p2"}
Unserializable == "unserializable"
LedgerEventTypes == {"copy_attempt", "attempt_terminated"}

NullHash == <<"NULL">>
GenesisHash == <<"genesis_block_hash_0">>

VARIABLES
    schema,        \* which table definition the database was set up with
    ledger,        \* rows of blockchain_logs, in insertion order
    writers,       \* in-flight append calls, one per writer
    clock,         \* server clock (CURRENT_TIMESTAMP)
    committed,     \* number of appends that returned a block
    verification,  \* result of the last verify() call
    tamperedSeq,   \* sequence number of the block mutated out of band
    tamperedField, \* the field that was mutated
    status,        \* exam_attempts.status of each attempt
    rowLock,       \* request holding the row of the attempt in its transaction
    termCount,     \* number of committed transitions to terminated
    page,          \* ExamSessionPage of each attempt: React state and closures
    requests,      \* HTTP requests of the page, by slot
    lastHandled,   \* the latest call of handleProctoringEvent
    lastEventTime, \* FaceMonitor: lastEventTimeRef, by event type
    rawSignal,     \* classifier: the raw signal handed to it
    classifiedEvent, \* classifier: what the lookup gave for it
    genesisRuns,   \* how often the genesis initialisation was run again
    genesisResult, \* outcome of the last genesis initialisation
    examDeleted,   \* the exam of the attempts was deleted by an admin
    proctoringEvents,   \* rows of proctoring_events seen by the aggregator
    suspiciousQuery,    \* SuspiciousAttemptsPage: the request for the list
    suspiciousAttempts, \* SuspiciousAttemptsPage: useState attempts
    attemptRows,        \* rows of exam_attempts, in insertion order
    startRequests,      \* POST /attempts/start/ requests in flight
    keystrokeBuffer,    \* AdvancedProctoringService.keystrokeBuffer
    mouseBuffer,        \* AdvancedProctoringService.mouseBuffer
    baselineTyping,     \* AdvancedProctoringService.baselineTyping
    baselineMouse,      \* AdvancedProctoringService.baselineMouse
    inputsSeen,         \* keydown / mousemove events delivered since reset()
    pointerSpeed,       \* pixels per millisecond of the hand moving the mouse
    mouseResult,        \* what the last captureMouseMovement returned
    tamperedRows,       \* rows of blockchain_logs mutated out of band
    scan,               \* verify() in progress: the rows it read
    stress,             \* StressMonitor: React state and the interval's closure
    timedExam           \* exam page: countdown, answers and submissions

ledgerVars == <<schema, ledger, writers, clock, committed>>
auditVars == <<verification, tamperedSeq, tamperedField>>
classifierVars == <<rawSignal, classifiedEvent>>
\* what the ledger, the verifier and the exam sessions leave alone
adminVars == <<genesisRuns, genesisResult, examDeleted>>
reportVars == <<proctoringEvents, suspiciousQuery, suspiciousAttempts>>
startVars == <<attemptRows, startRequests>>
biometricVars ==
    <<keystrokeBuffer, mouseBuffer, baselineTyping, baselineMouse, inputsSeen,
      pointerSpeed, mouseResult>>
forensicVars == <<tamperedRows, scan>>
componentVars == <<stress, timedExam>>
extraVars == <<reportVars, startVars, biometricVars, forensicVars, componentVars>>
otherVars == <<classifierVars, adminVars, extraVars>>
sessionVars ==
    <<status, rowLock, termCount, page, requests, lastHandled, lastEventTime>>
coreVars == <<classifierVars, adminVars, ledgerVars, auditVars, sessionVars>>
vars ==
    <<schema, ledger, writers, clock, committed, verification, tamperedSeq,
      tamperedField, status, rowLock, termCount, page, requests, lastHandled,
      lastEventTime, rawSignal, classifiedEvent, genesisRuns, genesisResult,
      examDeleted, proctoringEvents, suspiciousQuery, suspiciousAttempts,
      attemptRows, startRequests, keystrokeBuffer, mouseBuffer, baselineTyping,
      baselineMouse, inputsSeen, pointerSpeed, mouseResult, tamperedRows, scan,
      stress, timedExam>>
notReportVars == <<coreVars, startVars, biometricVars, forensicVars, componentVars>>
notStartVars == <<coreVars, reportVars, biometricVars, forensicVars, componentVars>>
notBiometricVars == <<coreVars, reportVars, startVars, forensicVars, componentVars>>
notComponentVars == <<coreVars, reportVars, startVars, biometricVars, forensicVars>>

None == 0 - 1
NoResult == [is_valid |-> TRUE, blocks_checked |-> None, errors |-> <<>>]

(***************************************************************************)
(* Blocks and hashing                                                      *)
(***************************************************************************)
\* digest over {sequence_number, previous_hash, event_type, entity_type,
\* entity_id, payload, created_at}; SHA-256 is taken to be collision free,
\* so the digest is represented by the tagged tuple of what it covers
Digest(b) ==
    <<"sha256", b.sequence_number, b.previous_hash, b.event_type,
      b.entity_type, b.entity_id, b.payload, b.created_at>>

GenesisBlock(sch) ==
    [sequence_number |-> 0,
     previous_hash |-> IF sch = "manual_setup" THEN NullHash ELSE <<"0">>,
     current_hash |-> GenesisHash,
     event_type |-> "system_init",
     entity_type |-> "system",
     entity_id |-> 0,
     payload |-> "init",
     created_at |-> 0]

\* the constraints the table definition puts on a new row
UniqueViolation(sch, L, b) ==
    \/ \E i \in 1..Len(L) : L[i].current_hash = b.current_hash
    \/ /\ sch = "schema_sql"
       /\ \E i \in 1..Len(L) : L[i].sequence_number = b.sequence_number

MaxSeq(L) ==
    CHOOSE m \in {L[i].sequence_number : i \in 1..Len(L)} :
        \A i \in 1..Len(L) : L[i].sequence_number <= m

\* rows an "ORDER BY sequence_number DESC LIMIT 1" can return
LastBlocks(L) == {i \in 1..Len(L) : L[i].sequence_number = MaxSeq(L)}

IdleWriter ==
    [pc |-> "idle", event_type |-> "none", entity_id |-> 0, payload |-> "none",
     lastSeq |-> 0, lastHash |-> NullHash, created_at |-> 0, tries |-> 0,
     err |-> "none"]

(***************************************************************************)
(* Ledger.append, one step at a time                                       *)
(***************************************************************************)
\* the hash is taken before created_at is filled in
NewBlockStaleTime(w) ==
    LET b == [sequence_number |-> w.lastSeq + 1,
              previous_hash |-> w.lastHash,
              current_hash |-> NullHash,
              event_type |-> w.event_type,
              entity_type |-> "attempt",
              entity_id |-> w.entity_id,
              payload |-> w.payload,
              created_at |-> 0]
    IN [b EXCEPT !.current_hash = Digest(b), !.created_at = w.created_at]

NewBlock(w) ==
    LET b == [sequence_number |-> w.lastSeq + 1,
              previous_hash |-> w.lastHash,
              current_hash |-> NullHash,
              event_type |-> w.event_type,
              entity_type |-> "attempt",
              entity_id |-> w.entity_id,
              payload |-> w.payload,
              created_at |-> w.created_at]
    IN [b EXCEPT !.current_hash = Digest(b)]

StartAppend(w) ==
    /\ writers[w].pc = "idle"
    /\ Len(ledger) < MaxBlocks
    /\ \E e \in LedgerEventTypes, a \in Attempts, p \in Payloads \cup {Unserializable} :
         writers' = [writers EXCEPT ![w] =
                       [IdleWriter EXCEPT !.pc = "read", !.event_type = e,
                                          !.entity_id = a, !.payload = p]]
    /\ UNCHANGED <<otherVars, schema, ledger, clock, committed, auditVars, sessionVars>>

AppendRead(w) ==
    /\ writers[w].pc = "read"
    /\ \E i \in LastBlocks(ledger) :
         writers' = [writers EXCEPT ![w].pc = "compute",
                                    ![w].lastSeq = ledger[i].sequence_number,
                                    ![w].lastHash = ledger[i].current_hash]
    /\ UNCHANGED <<otherVars, schema, ledger, clock, committed, auditVars, sessionVars>>

AppendCompute(w) ==
    /\ writers[w].pc = "compute"
    /\ IF writers[w].payload = Unserializable
       THEN writers' = [writers EXCEPT ![w].pc = "failed",
                                       ![w].err = "SerializationError"]
       ELSE writers' = [writers EXCEPT ![w].pc = "insert",
                                       ![w].created_at = clock]
    /\ UNCHANGED <<otherVars, schema, ledger, clock, committed, auditVars, sessionVars>>

\* a lost race is answered by trying the same insert again
AppendInsertSameBlock(w) ==
    /\ writers[w].pc = "insert"
    /\ IF UniqueViolation(schema, ledger, NewBlock(writers[w]))
       THEN UNCHANGED <<writers, ledger, committed>>
       ELSE /\ Len(ledger) < MaxBlocks
            /\ ledger' = Append(ledger, NewBlock(writers[w]))
            /\ writers' = [writers EXCEPT ![w].pc = "done"]
            /\ committed' = committed + 1
    /\ UNCHANGED <<otherVars, schema, clock, auditVars, sessionVars>>

AppendInsert(w) ==
    /\ writers[w].pc = "insert"
    /\ IF UniqueViolation(schema, ledger, NewBlock(writers[w]))
       THEN /\ IF writers[w].tries < MaxRetries
               THEN writers' = [writers EXCEPT ![w].pc = "read",
                                               ![w].tries = @ + 1]
               ELSE writers' = [writers EXCEPT ![w].pc = "failed",
                                               ![w].err = "ConflictError"]
            /\ UNCHANGED <<ledger, committed>>
       ELSE /\ Len(ledger) < MaxBlocks
            /\ ledger' = Append(ledger, NewBlock(writers[w]))
            /\ writers' = [writers EXCEPT ![w].pc = "done"]
            /\ committed' = committed + 1
    /\ UNCHANGED <<otherVars, schema, clock, auditVars, sessionVars>>

\* the caller takes the result; the writer can be used for the next call
AppendReturn(w) ==
    /\ writers[w].pc \in {"done", "failed"}
    /\ writers' = [writers EXCEPT ![w] = IdleWriter]
    /\ UNCHANGED <<otherVars, schema, ledger, clock, committed, auditVars, sessionVars>>

Tick ==
    /\ clock < MaxClock
    /\ clock' = clock + 1
    /\ UNCHANGED <<otherVars, schema, ledger, writers, committed, auditVars, sessionVars>>

(***************************************************************************)
(* Chain verifier                                                          *)
(***************************************************************************)
RECURSIVE SortBySeq(_, _)
\* rows of L at the indices in idx, ascending by sequence_number
\* (rows with equal numbers in insertion order)
SortBySeq(L, idx) ==
    IF idx = {} THEN <<>>
    ELSE LET m == CHOOSE i \in idx :
                    \A j \in idx :
                        \/ L[i].sequence_number < L[j].sequence_number
                        \/ /\ L[i].sequence_number = L[j].sequence_number
                           /\ i <= j
         IN <<L[m]>> \o SortBySeq(L, idx \ {m})

Min(a, b) == IF a < b THEN a ELSE b

\* the stored hash is not recomputed, only the linkage is checked
BlockErrorsLinkOnly(prior, b) ==
    (IF b.previous_hash # prior.current_hash
     THEN <<[sequence_number |-> b.sequence_number, kind |-> "previous_hash_mismatch"]>>
     ELSE <<>>)
    \o
    (IF b.sequence_number # prior.sequence_number + 1
     THEN <<[sequence_number |-> b.sequence_number, kind |-> "sequence_gap"]>>
     ELSE <<>>)

BlockErrors(prior, b) ==
    (IF Digest(b) # b.current_hash
     THEN <<[sequence_number |-> b.sequence_number, kind |-> "hash_mismatch"]>>
     ELSE <<>>)
    \o
    (IF b.previous_hash # prior.current_hash
     THEN <<[sequence_number |-> b.sequence_number, kind |-> "previous_hash_mismatch"]>>
     ELSE <<>>)
    \o
    (IF b.sequence_number # prior.sequence_number + 1
     THEN <<[sequence_number |-> b.sequence_number, kind |-> "sequence_gap"]>>
     ELSE <<>>)

RECURSIVE ScanErrors(_, _)
\* errors of blocks 2..n of the stream S, in scan order
ScanErrors(S, n) ==
    IF n <= 1 THEN <<>>
    ELSE ScanErrors(S, n - 1) \o BlockErrors(S[n - 1], S[n])

\* the scan stops at the first mismatch
VerifyStopsAtFirst(L, from_sequence, limit) ==
    LET all == SortBySeq(L, {i \in 1..Len(L) : L[i].sequence_number >= from_sequence})
        S == SubSeq(all, 1, Min(Len(all), limit))
        found == ScanErrors(S, Len(S))
        errs == IF found = <<>> THEN <<>> ELSE <<Head(found)>>
    IN [is_valid |-> errs = <<>>, blocks_checked |-> Len(S), errors |-> errs]

Verify(L, from_sequence, limit) ==
    LET all == SortBySeq(L, {i \in 1..Len(L) : L[i].sequence_number >= from_sequence})
        S == SubSeq(all, 1, Min(Len(all), limit))
        errs == ScanErrors(S, Len(S))
    IN [is_valid |-> errs = <<>>, blocks_checked |-> Len(S), errors |-> errs]

VerifyIntegrity ==
    /\ verification' = Verify(ledger, 0, VerifyLimit)
    /\ verification' # verification
    /\ UNCHANGED <<otherVars, schema, ledger, writers, clock, committed, tamperedSeq, tamperedField, sessionVars>>

(***************************************************************************)
(* Out-of-band mutation of one stored field of one row                     *)
(***************************************************************************)
BlockFields ==
    {"sequence_number", "previous_hash", "current_hash", "event_type",
     "entity_type", "entity_id", "payload", "created_at"}

\* values an UPDATE can put in field f of a row holding old
TamperedValues(L, f, old) ==
    CASE f = "sequence_number" -> (0..(MaxBlocks + 1)) \ {old}
      [] f = "previous_hash" ->
            ({<<"tampered">>} \cup {L[i].current_hash : i \in 1..Len(L)}) \ {old}
      [] f = "current_hash" -> {<<"tampered">>}
      [] f = "event_type" -> {"tampered"}
      [] f = "entity_type" -> {"tampered"}
      [] f = "entity_id" -> {old + 1}
      [] f = "payload" -> {"tampered"}
      [] f = "created_at" -> (0..(MaxClock + 1)) \ {old}

\* the other rows of L, which the constraints compare the updated row with
Others(L, i) == SubSeq(L, 1, i - 1) \o SubSeq(L, i + 1, Len(L))

Tamper ==
    /\ tamperedSeq = None
    /\ \A w \in Writers : writers[w].pc = "idle"
    /\ \E i \in 1..Len(ledger), f \in BlockFields :
         \E v \in TamperedValues(ledger, f, ledger[i][f]) :
             /\ ~UniqueViolation(schema, Others(ledger, i), [ledger[i] EXCEPT ![f] = v])
             /\ ledger' = [ledger EXCEPT ![i][f] = v]
             /\ tamperedSeq' = ledger[i].sequence_number
             /\ tamperedField' = f
    /\ verification' = NoResult
    /\ UNCHANGED <<otherVars, schema, writers, clock, committed, sessionVars>>

\* several rows are mutated, one field of each
TamperBlock ==
    /\ Cardinality(tamperedRows) < MaxTampered
    /\ \A w \in Writers : writers[w].pc = "idle"
    /\ \E i \in (1..Len(ledger)) \ tamperedRows, f \in BlockFields :
         \E v \in TamperedValues(ledger, f, ledger[i][f]) :
             /\ ~UniqueViolation(schema, Others(ledger, i), [ledger[i] EXCEPT ![f] = v])
             /\ ledger' = [ledger EXCEPT ![i][f] = v]
             /\ tamperedRows' = tamperedRows \cup {i}
    /\ verification' = NoResult
    /\ UNCHANGED <<classifierVars, adminVars, reportVars, startVars, biometricVars,
                   componentVars,
                   schema, writers, clock, committed, tamperedSeq, tamperedField,
                   sessionVars, scan>>

NoScan == [active |-> FALSE, rows |-> <<>>]

\* verify() reads the rows up to the ceiling it fixes at its start
VerifyBegin ==
    /\ ~scan.active
    /\ scan' = [active |-> TRUE, rows |-> ledger]
    /\ UNCHANGED <<classifierVars, adminVars, reportVars, startVars, biometricVars,
                   componentVars,
                   ledgerVars, auditVars, sessionVars, tamperedRows>>

\* the scan of those rows ends and the result is returned
VerifyEnd ==
    /\ scan.active
    /\ verification' = Verify(scan.rows, 0, VerifyLimit)
    /\ scan' = NoScan
    /\ UNCHANGED <<classifierVars, adminVars, reportVars, startVars, biometricVars,
                   componentVars,
                   ledgerVars, tamperedSeq, tamperedField, sessionVars, tamperedRows>>

(***************************************************************************)
(* Administration: genesis initialisation and deletion of an exam          *)
(***************************************************************************)
\* STEP 7 of the setup script run on the database: INSERT of the genesis
\* row; the literal does not fit the column, and current_hash is UNIQUE
GenesisInsert ==
    /\ schema = "manual_setup"
    /\ genesisRuns < MaxGenesisRuns
    /\ genesisRuns' = genesisRuns + 1
    /\ IF \/ GenesisHashLength > HashColumnWidth
          \/ UniqueViolation(schema, ledger, GenesisBlock(schema))
       THEN /\ genesisResult' = "error"
            /\ UNCHANGED ledger
       ELSE /\ genesisResult' = "created"
            /\ ledger' = Append(ledger, GenesisBlock(schema))
    /\ UNCHANGED <<schema, writers, clock, committed, examDeleted, classifierVars,
                   extraVars, auditVars, sessionVars>>

\* POST /blockchain/initialize: creates the genesis block unless the ledger
\* has one
InitializeGenesis ==
    /\ genesisRuns < MaxGenesisRuns
    /\ genesisRuns' = genesisRuns + 1
    /\ IF \E i \in 1..Len(ledger) : ledger[i].sequence_number = 0
       THEN /\ genesisResult' = "exists"
            /\ UNCHANGED ledger
       ELSE /\ genesisResult' = "created"
            /\ ledger' = Append(ledger, GenesisBlock(schema))
    /\ UNCHANGED <<schema, writers, clock, committed, examDeleted, classifierVars,
                   extraVars, auditVars, sessionVars>>

\* an append for an attempt of the exam, while the exam exists
AdminAppend(w) ==
    /\ ~examDeleted
    /\ StartAppend(w)

\* DELETE /exams/{id}: the attempts of the exam go with it (ON DELETE
\* CASCADE), and the rows of blockchain_logs that reference them get
\* attempt_id = NULL where the column is a foreign key (ON DELETE SET NULL)
DeleteExam ==
    /\ ~examDeleted
    /\ \A w \in Writers : writers[w].pc = "idle"
    /\ examDeleted' = TRUE
    /\ ledger' = IF schema = "schema_sql"
                 THEN [i \in 1..Len(ledger) |->
                         IF ledger[i].entity_type = "attempt"
                         THEN [ledger[i] EXCEPT !.entity_id = 0]
                         ELSE ledger[i]]
                 ELSE ledger
    /\ UNCHANGED <<schema, writers, clock, committed, genesisRuns, genesisResult,
                   classifierVars, extraVars, auditVars, sessionVars>>

(***************************************************************************)
(* Event classification: the severity table of the client                  *)
(***************************************************************************)
PROCTORING_EVENTS ==
    {"face_detection", "voice_detection", "stress_alert", "tab_switch",
     "window_blur", "multiple_faces", "no_face", "suspicious_behavior",
     "copy_attempt", "paste_attempt", "cut_attempt", "right_click_attempt",
     "restricted_key_attempt", "fullscreen_exit", "screen_recording_detected"}

EVENT_SEVERITY ==
    [t \in PROCTORING_EVENTS |->
        CASE t \in {"face_detection", "voice_detection"} -> "low"
          [] t \in {"stress_alert", "tab_switch", "window_blur",
                    "right_click_attempt"} -> "medium"
          [] t = "screen_recording_detected" -> "critical"
          [] OTHER -> "high"]

SeverityTiers == {"low", "medium", "high", "critical"}

\* the event types the page, the monitors and the behaviour analysis of the
\* client put on an event
EmittedTags ==
    {"tab_switch", "window_blur", "copy_attempt", "paste_attempt",
     "cut_attempt", "right_click_attempt", "restricted_key_attempt",
     "fullscreen_exit", "no_face", "multiple_faces", "voice_detection",
     "low_face_confidence", "typing_pattern_change", "mouse_pattern_change"}

UnknownTag == "totally_unknown_tag"
RawTags == PROCTORING_EVENTS \cup EmittedTags \cup {UnknownTag}

\* confidence in steps of 1/ConfidenceSteps
Confidences == 0..ConfidenceSteps

NoSignal == [tag |-> "none", confidence |-> 0]
NotClassified ==
    [event_type |-> "none", severity |-> "none", confidence |-> 0,
     error |-> "none"]

\* EVENT_SEVERITY[tag]: reading a key an object does not have gives
\* undefined, no exception is thrown
Lookup(table, tag) == IF tag \in DOMAIN table THEN table[tag] ELSE "undefined"

Classify(raw) ==
    [event_type |-> raw.tag, severity |-> Lookup(EVENT_SEVERITY, raw.tag),
     confidence |-> raw.confidence, error |-> "none"]

ClassifySignal ==
    /\ rawSignal # NoSignal
    /\ classifiedEvent = NotClassified
    /\ classifiedEvent' = Classify(rawSignal)
    /\ UNCHANGED <<rawSignal, adminVars, extraVars, ledgerVars, auditVars, sessionVars>>

\* the next raw signal comes in
NextSignal ==
    /\ classifiedEvent # NotClassified
    /\ rawSignal' \in [tag : RawTags, confidence : Confidences]
    /\ classifiedEvent' = NotClassified
    /\ UNCHANGED <<adminVars, extraVars, ledgerVars, auditVars, sessionVars>>

(***************************************************************************)
(* Exam session page (ExamSessionPage) and the attempt endpoints           *)
(***************************************************************************)
ThrottleWindow == 2

\* Date.now() in seconds; the page is opened later than ThrottleWindow after
\* the epoch, so that a first signal is never taken for a repetition
Now == ThrottleWindow + clock

AutoTerminateTypes == {"multiple_faces", "tab_switch", "window_blur"}
\* signals of the browser listeners, of the face monitor and of the
\* anomaly messages of the proctoring WebSocket
BrowserEventTypes == {"tab_switch", "window_blur", "copy_attempt"}
MonitorEventTypes == {"multiple_faces", "no_face"}
AnomalyTypes == {"no_face", "multiple_faces", "low_face_confidence"}

EventTypes == BrowserEventTypes \cup MonitorEventTypes \cup AnomalyTypes

Terminal == {"terminated", "submitted"}

SetupPage ==
    [phase |-> "setup", attemptId |-> 0, proctoringActive |-> FALSE,
     lsnAttemptId |-> 0, lsnActive |-> FALSE,
     wsOpen |-> FALSE, wsAttemptId |-> 0, wsActive |-> FALSE,
     terminatedShown |-> FALSE]

FreeRequest ==
    [kind |-> "none", attempt_id |-> 0, event_type |-> "none",
     state |-> "free", result |-> "none"]

NotHandled ==
    [attempt_id |-> 0, event_type |-> "none", source |-> "none",
     action |-> "none", status |-> "none", time |-> 0]

FreeSlots == {r \in Writers : requests[r].state = "free"}
InFlight == {r \in Writers : requests[r].state \in {"sent", "appending"}}
\* room left in the ledger for the blocks of one more request
CanSend == FreeSlots # {} /\ Len(ledger) + Cardinality(InFlight) < MaxBlocks
NextSlot == CHOOSE r \in FreeSlots : \A q \in FreeSlots : r <= q

Send(kind, a, e) ==
    [requests EXCEPT ![NextSlot] =
        [kind |-> kind, attempt_id |-> a, event_type |-> e,
         state |-> "sent", result |-> "none"]]

\* handleStartExam: the attempt is created, the four state updates are
\* applied in one render, the effect installs the listeners with the values
\* of that render; the WebSocket callback was created by the render of the
\* setup phase, where attemptId was still null
HandleStartExam(a) ==
    /\ page[a].phase = "setup"
    /\ status[a] = "none"
    /\ status' = [status EXCEPT ![a] = "in_progress"]
    /\ page' = [page EXCEPT ![a] =
                  [phase |-> "exam", attemptId |-> a, proctoringActive |-> TRUE,
                   lsnAttemptId |-> a, lsnActive |-> TRUE,
                   wsOpen |-> TRUE, wsAttemptId |-> page[a].attemptId,
                   wsActive |-> page[a].proctoringActive,
                   terminatedShown |-> FALSE]]
    /\ UNCHANGED <<otherVars, lastEventTime, ledgerVars, auditVars, rowLock, termCount, requests, lastHandled>>

\* what handleProctoringEvent does with an event of type e when it runs in
\* a closure that captured attemptId = cid and proctoringActive = cact
\* (the action of the whole handling is the answer of the server to the
\* request that is sent: terminate, log, or an error)
HandleAction(cid, cact, e) ==
    IF cid = 0 THEN "dropped"
    ELSE IF e \in AutoTerminateTypes
         THEN IF cact THEN "terminate" ELSE "guarded"
         ELSE "log"

\* handleProctoringEvent with autoTerminate up to the awaited request
HandleProctoringEvent(a, source, e, cid, cact) ==
    LET act == HandleAction(cid, cact, e) IN
    /\ act \in {"terminate", "log"} => CanSend
    /\ lastHandled' = [attempt_id |-> a, event_type |-> e, source |-> source,
                       action |-> act, status |-> status[a], time |-> Now]
    /\ CASE act = "terminate" ->
              /\ requests' = Send("terminate", cid, e)
              /\ page' = [page EXCEPT ![a].proctoringActive = FALSE]
         [] act = "log" ->
              /\ requests' = Send("event", cid, e)
              /\ UNCHANGED page
         [] OTHER -> UNCHANGED <<requests, page>>
    /\ UNCHANGED <<otherVars, ledgerVars, auditVars, status, rowLock, termCount>>

\* visibilitychange, blur, copy: the listeners stay installed while the
\* page is mounted
BrowserEvent(a) ==
    /\ page[a].phase = "exam"
    /\ \E e \in BrowserEventTypes :
         HandleProctoringEvent(a, "browser_api", e, page[a].lsnAttemptId, page[a].lsnActive)
    /\ UNCHANGED lastEventTime

\* FaceMonitor runs while isActive; its onEvent is the handler of the render
\* in which it started.  triggerEvent returns without a call of onEvent when
\* the last event of the type is less than two seconds old.
MonitorEvent(a) ==
    /\ page[a].phase = "exam"
    /\ page[a].proctoringActive
    /\ \E e \in MonitorEventTypes :
         /\ ~(Now - lastEventTime[a][e] < ThrottleWindow)
         /\ lastEventTime' = [lastEventTime EXCEPT ![a][e] = Now]
         /\ HandleProctoringEvent(a, "mediapipe_face_detection", e, page[a].lsnAttemptId, page[a].lsnActive)

\* anomaly message of the proctoring WebSocket
WsAnomaly(a) ==
    /\ page[a].wsOpen
    /\ \E e \in AnomalyTypes :
         HandleProctoringEvent(a, "ai_backend", e, page[a].wsAttemptId, page[a].wsActive)
    /\ UNCHANGED lastEventTime

\* handleSubmit from the Submit button, confirmed by the student
HandleSubmit(a) ==
    /\ page[a].phase = "exam"
    /\ page[a].attemptId # 0
    /\ FreeSlots # {}
    /\ page' = [page EXCEPT ![a].proctoringActive = FALSE, ![a].wsOpen = FALSE]
    /\ requests' = Send("submit", page[a].attemptId, "none")
    /\ UNCHANGED <<otherVars, lastEventTime, ledgerVars, auditVars, status, rowLock, termCount, lastHandled>>

\* the request does not reach the server or the server answers with an error
RequestFails(r) ==
    /\ requests[r].state = "sent"
    /\ requests' = [requests EXCEPT ![r].state = "responded", ![r].result = "error"]
    /\ UNCHANGED <<otherVars, lastEventTime, ledgerVars, auditVars, status, rowLock, termCount, page, lastHandled>>

\* a tag without a severity is recorded as a generic event
GenericEvent == "unknown_signal"
RecordedType(tag) == IF tag \in PROCTORING_EVENTS THEN tag ELSE GenericEvent

\* POST /proctoring/event: the event is appended to the ledger
ServeEvent(r) ==
    /\ requests[r].state = "sent"
    /\ requests[r].kind = "event"
    /\ requests' = [requests EXCEPT ![r].state = "appending"]
    /\ writers' = [writers EXCEPT ![r] =
                     [IdleWriter EXCEPT !.pc = "read",
                                        !.event_type = RecordedType(requests[r].event_type),
                                        !.entity_id = requests[r].attempt_id,
                                        !.payload = "p1"]]
    /\ UNCHANGED <<otherVars, lastEventTime, schema, ledger, clock, committed, auditVars, status, rowLock,
                   termCount, page, lastHandled>>

\* POST /attempts/{id}/terminate: UPDATE ... WHERE status is not terminal
\* takes the row, then the attempt_terminated block is appended in the same
\* transaction; on a terminal attempt the request is a no-op
ServeTerminate(r) ==
    LET a == requests[r].attempt_id IN
    /\ requests[r].state = "sent"
    /\ requests[r].kind = "terminate"
    /\ rowLock[a] = 0
    /\ IF status[a] \in Terminal
       THEN /\ requests' = [requests EXCEPT ![r].state = "responded",
                                            ![r].result = "log"]
            /\ UNCHANGED <<writers, rowLock>>
       ELSE /\ requests' = [requests EXCEPT ![r].state = "appending"]
            /\ rowLock' = [rowLock EXCEPT ![a] = r]
            /\ writers' = [writers EXCEPT ![r] =
                             [IdleWriter EXCEPT !.pc = "read",
                                                !.event_type = "attempt_terminated",
                                                !.entity_id = a,
                                                !.payload = requests[r].event_type]]
    /\ UNCHANGED <<otherVars, lastEventTime, schema, ledger, clock, committed, auditVars, status,
                   termCount, page, lastHandled>>

\* the status is overwritten whatever it was
ServeSubmitNoGuard(r) ==
    LET a == requests[r].attempt_id IN
    /\ requests[r].state = "sent"
    /\ requests[r].kind = "submit"
    /\ status' = [status EXCEPT ![a] = "submitted"]
    /\ requests' = [requests EXCEPT ![r].state = "responded", ![r].result = "ok"]
    /\ UNCHANGED <<otherVars, lastEventTime, ledgerVars, auditVars, rowLock, termCount, page, lastHandled>>

\* POST /attempts/{id}/submit: UPDATE ... WHERE status = 'in_progress'
ServeSubmit(r) ==
    LET a == requests[r].attempt_id IN
    /\ requests[r].state = "sent"
    /\ requests[r].kind = "submit"
    /\ rowLock[a] = 0
    /\ IF status[a] \in Terminal
       THEN /\ requests' = [requests EXCEPT ![r].state = "responded",
                                            ![r].result = "error"]
            /\ UNCHANGED status
       ELSE /\ requests' = [requests EXCEPT ![r].state = "responded",
                                            ![r].result = "ok"]
            /\ status' = [status EXCEPT ![a] = "submitted"]
    /\ UNCHANGED <<otherVars, lastEventTime, ledgerVars, auditVars, rowLock, termCount, page, lastHandled>>

\* an event that has been recorded closes the attempt as submitted
FinishAppendSubmits(r) ==
    LET a == requests[r].attempt_id
        ok == writers[r].pc = "done"
    IN
    /\ requests[r].state = "appending"
    /\ writers[r].pc \in {"done", "failed"}
    /\ writers' = [writers EXCEPT ![r] = IdleWriter]
    /\ IF requests[r].kind = "terminate"
       THEN /\ requests' = [requests EXCEPT ![r].state = "responded",
                               ![r].result = IF ok THEN "terminate" ELSE "error"]
            /\ rowLock' = [rowLock EXCEPT ![a] = IF @ = r THEN 0 ELSE @]
            /\ status' = [status EXCEPT ![a] = IF ok THEN "terminated" ELSE @]
            /\ termCount' = [termCount EXCEPT ![a] = IF ok THEN @ + 1 ELSE @]
       ELSE /\ requests' = [requests EXCEPT ![r].state = "responded",
                               ![r].result = IF ok THEN "ok" ELSE "error"]
            /\ status' = [status EXCEPT ![a] = IF ok /\ @ = "in_progress"
                                               THEN "submitted" ELSE @]
            /\ UNCHANGED <<rowLock, termCount>>
    /\ UNCHANGED <<otherVars, lastEventTime, schema, ledger, clock, committed, auditVars, page, lastHandled>>

\* the append of the request has returned: the transaction commits or
\* rolls back and the response is sent
FinishAppend(r) ==
    LET a == requests[r].attempt_id
        ok == writers[r].pc = "done"
    IN
    /\ requests[r].state = "appending"
    /\ writers[r].pc \in {"done", "failed"}
    /\ writers' = [writers EXCEPT ![r] = IdleWriter]
    /\ IF requests[r].kind = "terminate"
       THEN /\ requests' = [requests EXCEPT ![r].state = "responded",
                               ![r].result = IF ok THEN "terminate" ELSE "error"]
            /\ rowLock' = [rowLock EXCEPT ![a] = IF @ = r THEN 0 ELSE @]
            /\ status' = [status EXCEPT ![a] = IF ok THEN "terminated" ELSE @]
            /\ termCount' = [termCount EXCEPT ![a] = IF ok THEN @ + 1 ELSE @]
       ELSE /\ requests' = [requests EXCEPT ![r].state = "responded",
                               ![r].result = IF ok THEN "ok" ELSE "error"]
            /\ UNCHANGED <<rowLock, status, termCount>>
    /\ UNCHANGED <<otherVars, lastEventTime, schema, ledger, clock, committed, auditVars, page, lastHandled>>

\* the awaited call returns or throws in the page: autoTerminate alerts and
\* navigates in both cases, handleSubmit navigates on success
Continue(r) ==
    LET a == requests[r].attempt_id IN
    /\ requests[r].state = "responded"
    /\ requests' = [requests EXCEPT ![r] = FreeRequest]
    /\ CASE requests[r].kind = "terminate" ->
              page' = [page EXCEPT ![a].terminatedShown = TRUE, ![a].phase = "left"]
         [] requests[r].kind = "submit" /\ requests[r].result = "ok" ->
              page' = [page EXCEPT ![a].phase = "left"]
         [] OTHER -> UNCHANGED page
    /\ UNCHANGED <<otherVars, lastEventTime, ledgerVars, auditVars, status, rowLock, termCount, lastHandled>>

(***************************************************************************)
(* Suspicion aggregator: GET /proctoring/suspicious and the admin page     *)
(* that asks for it                                                        *)
(***************************************************************************)
ReportAttempts == 1..NumReportAttempts
\* confidences and thresholds in steps of 1 / ReportSteps
ReportConfidences == 0..ReportSteps
MinEventCounts == 1..MaxReportEvents

NoQuery == [confidence_threshold |-> 0, min_event_count |-> 0, state |-> "none"]

RECURSIVE ConfidenceSum(_)
ConfidenceSum(rows) ==
    IF rows = <<>> THEN 0
    ELSE Head(rows).confidence + ConfidenceSum(Tail(rows))

\* GROUP BY attempt_id: the rows of one attempt
EventsOf(table, a) == SelectSeq(table, LAMBDA e : e.attempt_id = a)

\* the average is kept as the pair <<sum, count>>
AttemptSummary(table, a) ==
    [attempt_id |-> a,
     suspicious_event_count |-> Len(EventsOf(table, a)),
     avg_confidence |-> <<ConfidenceSum(EventsOf(table, a)), Len(EventsOf(table, a))>>]

\* avg >= threshold, and avg >= avg, on the pairs
AvgAtLeast(avg, threshold) == avg[1] >= threshold * avg[2]
AvgGeq(x, y) == x[1] * y[2] >= y[1] * x[2]

\* ORDER BY avg_confidence DESC
RECURSIVE SortDescending(_)
SortDescending(summaries) ==
    IF summaries = {} THEN <<>>
    ELSE LET top == CHOOSE x \in summaries :
                       \A y \in summaries :
                           /\ AvgGeq(x.avg_confidence, y.avg_confidence)
                           /\ AvgGeq(y.avg_confidence, x.avg_confidence)
                                  => x.attempt_id <= y.attempt_id
         IN  <<top>> \o SortDescending(summaries \ {top})

ListSuspiciousAnyCount(table, confidence_threshold, min_event_count) ==
    SortDescending(
        {x \in {AttemptSummary(table, a) :
                  a \in {b \in ReportAttempts : Len(EventsOf(table, b)) > 0}} :
            AvgAtLeast(x.avg_confidence, confidence_threshold)})

ListSuspicious(table, confidence_threshold, min_event_count) ==
    SortDescending(
        {x \in {AttemptSummary(table, a) :
                  a \in {b \in ReportAttempts : Len(EventsOf(table, b)) > 0}} :
            /\ x.suspicious_event_count >= min_event_count
            /\ AvgAtLeast(x.avg_confidence, confidence_threshold)})

\* an event of some attempt is stored while the admin looks at the page
LogProctoringEvent ==
    /\ Len(proctoringEvents) < MaxReportEvents
    /\ \E a \in ReportAttempts, c \in ReportConfidences :
         proctoringEvents' =
             Append(proctoringEvents, [attempt_id |-> a, confidence |-> c])
    /\ UNCHANGED <<suspiciousQuery, suspiciousAttempts>>
    /\ UNCHANGED notReportVars

\* loadSuspiciousAttempts -> proctoringService.getSuspiciousAttempts: the
\* thresholds of the two sliders go into the request as they are
LoadSuspiciousAttempts ==
    /\ suspiciousQuery.state # "sent"
    /\ \E t \in ReportConfidences, n \in MinEventCounts :
         suspiciousQuery' = [confidence_threshold |-> t, min_event_count |-> n,
                             state |-> "sent"]
    /\ UNCHANGED <<proctoringEvents, suspiciousAttempts>>
    /\ UNCHANGED notReportVars

\* the server answers and the page keeps response.data.suspicious_attempts
ServeSuspicious ==
    /\ suspiciousQuery.state = "sent"
    /\ suspiciousAttempts' =
           ListSuspicious(proctoringEvents, suspiciousQuery.confidence_threshold,
                          suspiciousQuery.min_event_count)
    /\ suspiciousQuery' = [suspiciousQuery EXCEPT !.state = "answered"]
    /\ UNCHANGED proctoringEvents
    /\ UNCHANGED notReportVars

\* the request fails: the catch block logs and the list stays as it was
SuspiciousFails ==
    /\ suspiciousQuery.state = "sent"
    /\ suspiciousQuery' = [suspiciousQuery EXCEPT !.state = "failed"]
    /\ UNCHANGED <<proctoringEvents, suspiciousAttempts>>
    /\ UNCHANGED notReportVars

(***************************************************************************)
(* Starting attempts: table exam_attempts and POST /attempts/start/        *)
(***************************************************************************)
Students == 1..NumStudents
Exams == 1..NumExams
Starters == 1..NumStarters

\* attempt_status of the two table definitions; a new row is 'in_progress'
AttemptStatuses(sch) ==
    IF sch = "manual_setup"
    THEN {"in_progress", "completed", "terminated", "cancelled"}
    ELSE {"in_progress", "submitted", "auto_submitted", "abandoned"}

NoStart == [student_id |-> 0, exam_id |-> 0, pc |-> "idle", sawActive |-> FALSE]

\* unique_active_attempt UNIQUE (student_id, exam_id, status), and
\* one_attempt_per_student_per_exam UNIQUE (exam_id, student_id); row
\* `except` is the row being updated
AttemptUniqueViolationNone(sch, rows, row, except) == FALSE

AttemptUniqueViolation(sch, rows, row, except) ==
    \E i \in 1..Len(rows) :
        /\ i # except
        /\ rows[i].student_id = row.student_id
        /\ rows[i].exam_id = row.exam_id
        /\ sch = "manual_setup" => rows[i].status = row.status

\* examService.startAttempt: the student of the session asks to start an exam
StartAttempt(q) ==
    /\ startRequests[q].pc = "idle"
    /\ \E st \in Students, e \in Exams :
         startRequests' = [startRequests EXCEPT
                              ![q] = [student_id |-> st, exam_id |-> e,
                                      pc |-> "sent", sawActive |-> FALSE]]
    /\ UNCHANGED attemptRows
    /\ UNCHANGED notStartVars

\* the server looks for an active attempt of the student for the exam
ServeStartRead(q) ==
    /\ startRequests[q].pc = "sent"
    /\ startRequests' = [startRequests EXCEPT
           ![q].pc = "read",
           ![q].sawActive =
               \E i \in 1..Len(attemptRows) :
                   /\ attemptRows[i].student_id = startRequests[q].student_id
                   /\ attemptRows[i].exam_id = startRequests[q].exam_id
                   /\ attemptRows[i].status = "in_progress"]
    /\ UNCHANGED attemptRows
    /\ UNCHANGED notStartVars

\* INSERT INTO exam_attempts (exam_id, student_id): status takes its default
ServeStartInsert(q) ==
    /\ startRequests[q].pc = "read"
    /\ LET row == [student_id |-> startRequests[q].student_id,
                   exam_id |-> startRequests[q].exam_id,
                   status |-> "in_progress"]
       IN  IF startRequests[q].sawActive
              \/ AttemptUniqueViolation(schema, attemptRows, row, 0)
           THEN /\ startRequests' = [startRequests EXCEPT ![q].pc = "rejected"]
                /\ UNCHANGED attemptRows
           ELSE /\ Len(attemptRows) < MaxAttemptRows
                /\ attemptRows' = Append(attemptRows, row)
                /\ startRequests' = [startRequests EXCEPT ![q].pc = "created"]
    /\ UNCHANGED notStartVars

\* the response reaches the page; the next request can be made
StartReturn(q) ==
    /\ startRequests[q].pc \in {"created", "rejected"}
    /\ startRequests' = [startRequests EXCEPT ![q] = NoStart]
    /\ UNCHANGED attemptRows
    /\ UNCHANGED notStartVars

\* UPDATE exam_attempts SET status = ...: an attempt in progress ends
EndAttempt ==
    /\ \E i \in 1..Len(attemptRows), st \in AttemptStatuses(schema) \ {"in_progress"} :
         /\ attemptRows[i].status = "in_progress"
         /\ ~AttemptUniqueViolation(schema, attemptRows,
                                    [attemptRows[i] EXCEPT !.status = st], i)
         /\ attemptRows' = [attemptRows EXCEPT ![i].status = st]
    /\ UNCHANGED startRequests
    /\ UNCHANGED notStartVars

(***************************************************************************)
(* Behavioural biometrics: AdvancedProctoringService                       *)
(***************************************************************************)
\* null, for a profile
NullProfile == [avgInterval |-> <<0, 0>>, sample |-> <<0, 0>>]

\* Date.now() of the next input: later than that of every input before it
NextStamp(seen) == seen + 1

NoInputs == [keystrokes |-> 0, movements |-> 0]

\* captureMouseMovement was not called since the constructor or reset()
NotCalled == "none"

\* the window compared with the mouse baseline, and the deviation (in
\* hundredths) above which a change is reported
RecentMovements == 50
MouseThreshold == 40

PushedKeepsOldest(buffer, item, limit) ==
    IF Len(buffer) + 1 > limit THEN buffer
    ELSE Append(buffer, item)

\* push, then shift when the buffer is over its limit
Pushed(buffer, item, limit) ==
    IF Len(buffer) + 1 > limit THEN Tail(Append(buffer, item))
    ELSE Append(buffer, item)

\* the mean interval is kept as <<sum of the intervals, their number>>;
\* `sample` stands for what else depends on the inputs (stdDev, wpm)
calculateTypingProfile(keystrokes) ==
    IF Len(keystrokes) < 2 THEN NullProfile
    ELSE [avgInterval |->
              <<keystrokes[Len(keystrokes)].timestamp - keystrokes[1].timestamp,
                Len(keystrokes) - 1>>,
          sample |-> <<keystrokes[1].timestamp,
                       keystrokes[Len(keystrokes)].timestamp>>]

\* a JavaScript number in hundredths, or NaN
Number(v) == [nan |-> FALSE, val |-> v]
NaN == [nan |-> TRUE, val |-> 0]

\* profile.name; a property the object does not have is undefined, which
\* arithmetic turns into NaN
Field(profile, name) ==
    IF name \in DOMAIN profile THEN profile[name] ELSE NaN

Minus(a, b) == IF a.nan \/ b.nan THEN NaN ELSE Number(a.val - b.val)
Plus(a, b) == IF a.nan \/ b.nan THEN NaN ELSE Number(a.val + b.val)
MathAbs(a) == IF a.nan THEN NaN ELSE Number(IF a.val < 0 THEN -a.val ELSE a.val)
\* a / b; 0 / 0 is NaN (no other division by 0 arises: the hand moves)
Over(a, b) ==
    IF a.nan \/ b.nan \/ b.val = 0 THEN NaN
    ELSE Number((100 * a.val) \div b.val)
\* a > b: false when either side is NaN
GreaterThan(a, b) == ~a.nan /\ ~b.nan /\ a.val > b.val

\* Math.sqrt of a variance given as a fraction, in hundredths
Sqrt(num, den) ==
    CHOOSE r \in 0..(100 * MaxSpeed) :
        /\ r * r * den <= 10000 * num
        /\ (r + 1) * (r + 1) * den > 10000 * num

\* the velocities between consecutive movements with dt > 0; the pointer
\* moves along one axis
Velocities(movements) ==
    [i \in 1..(Len(movements) - 1) |->
        LET dx == movements[i + 1].x - movements[i].x
            dt == movements[i + 1].timestamp - movements[i].timestamp
        IN  (IF dx < 0 THEN -dx ELSE dx) \div dt]

\* reduce((a, b) => a + b, 0) over values[from..to], summed by halves
RECURSIVE SumOf(_, _, _)
SumOf(values, from, to) ==
    IF from > to THEN 0
    ELSE IF from = to THEN values[from]
    ELSE LET mid == (from + to) \div 2
         IN  SumOf(values, from, mid) + SumOf(values, mid + 1, to)

\* the square root of the mean squared distance to the mean
calculateStdDev(values) ==
    LET n == Len(values)
        sum == SumOf(values, 1, n)
        squares == [i \in 1..n |-> values[i] * values[i]]
    IN  IF n = 0 THEN NaN
        ELSE Number(Sqrt(n * SumOf(squares, 1, n) - sum * sum, n * n))

\* `sample` records which movements the profile was computed from
calculateMouseProfile(movements) ==
    IF Len(movements) < 2 THEN NullProfile
    ELSE LET velocities == Velocities(movements) IN
         [avgVelocity |-> Over(Number(100 * SumOf(velocities, 1, Len(velocities))),
                               Number(100 * Len(velocities))),
          stdDev |-> calculateStdDev(velocities),
          sample |-> <<movements[1].timestamp,
                       movements[Len(movements)].timestamp>>]

\* the normalised difference of two profiles; it reads avgInterval and
\* stdDev of both
compareProfiles(baseline, current) ==
    IF baseline = NullProfile \/ current = NullProfile THEN Number(0)
    ELSE LET avgDiff == Over(MathAbs(Minus(Field(baseline, "avgInterval"),
                                           Field(current, "avgInterval"))),
                             Field(baseline, "avgInterval"))
             stdDiff == Over(MathAbs(Minus(Field(baseline, "stdDev"),
                                           Field(current, "stdDev"))),
                             IF Field(baseline, "stdDev") \in {NaN, Number(0)}
                             THEN Number(100)
                             ELSE Field(baseline, "stdDev"))
             sum == Plus(avgDiff, stdDiff)
         IN  IF sum.nan THEN NaN ELSE Number(sum.val \div 2)

\* slice(-n)
LastOf(buffer, n) ==
    IF Len(buffer) <= n THEN buffer
    ELSE SubSeq(buffer, Len(buffer) - n + 1, Len(buffer))

captureKeystrokeRecomputes ==
    /\ NextStamp(inputsSeen.keystrokes) <= MaxKeystrokes
    /\ inputsSeen' = [inputsSeen EXCEPT !.keystrokes = @ + 1]
    /\ LET buffer == Pushed(keystrokeBuffer,
                            [timestamp |-> NextStamp(inputsSeen.keystrokes)],
                            KeystrokeBufferLimit)
       IN  /\ keystrokeBuffer' = buffer
           /\ baselineTyping' =
                  IF Len(buffer) >= BaselineKeystrokes
                  THEN calculateTypingProfile(buffer)
                  ELSE baselineTyping
    /\ UNCHANGED <<mouseBuffer, baselineMouse, pointerSpeed, mouseResult>>
    /\ UNCHANGED notBiometricVars

\* the value returned (an anomaly or null) changes nothing in the service
captureKeystroke ==
    /\ NextStamp(inputsSeen.keystrokes) <= MaxKeystrokes
    /\ inputsSeen' = [inputsSeen EXCEPT !.keystrokes = @ + 1]
    /\ LET buffer == Pushed(keystrokeBuffer,
                            [timestamp |-> NextStamp(inputsSeen.keystrokes)],
                            KeystrokeBufferLimit)
       IN  /\ keystrokeBuffer' = buffer
           /\ baselineTyping' =
                  IF baselineTyping = NullProfile /\ Len(buffer) >= BaselineKeystrokes
                  THEN calculateTypingProfile(buffer)
                  ELSE baselineTyping
    /\ UNCHANGED <<mouseBuffer, baselineMouse, pointerSpeed, mouseResult>>
    /\ UNCHANGED notBiometricVars

captureMouseMovement ==
    /\ NextStamp(inputsSeen.movements) <= MaxMovements
    /\ inputsSeen' = [inputsSeen EXCEPT !.movements = @ + 1]
    /\ LET movement ==
               [timestamp |-> NextStamp(inputsSeen.movements),
                x |-> IF mouseBuffer = <<>> THEN 0
                      ELSE mouseBuffer[Len(mouseBuffer)].x + pointerSpeed]
           buffer == Pushed(mouseBuffer, movement, MouseBufferLimit)
           baseline ==
               IF baselineMouse = NullProfile /\ Len(buffer) >= BaselineMovements
               THEN calculateMouseProfile(buffer)
               ELSE baselineMouse
           deviation ==
               compareProfiles(baseline,
                               calculateMouseProfile(LastOf(buffer, RecentMovements)))
       IN  /\ mouseBuffer' = buffer
           /\ baselineMouse' = baseline
           /\ mouseResult' =
                  IF /\ baseline # NullProfile
                     /\ Len(buffer) >= RecentMovements
                     /\ GreaterThan(deviation, Number(MouseThreshold))
                  THEN "mouse_pattern_change"
                  ELSE "null"
    /\ UNCHANGED <<keystrokeBuffer, baselineTyping, pointerSpeed>>
    /\ UNCHANGED notBiometricVars

\* reset(): for a new session; only taken when there is something to clear
reset ==
    /\ keystrokeBuffer # <<>> \/ mouseBuffer # <<>>
    /\ keystrokeBuffer' = <<>>
    /\ mouseBuffer' = <<>>
    /\ baselineTyping' = NullProfile
    /\ baselineMouse' = NullProfile
    /\ inputsSeen' = NoInputs
    /\ mouseResult' = NotCalled
    /\ UNCHANGED pointerSpeed
    /\ UNCHANGED notBiometricVars

\* someone else takes the mouse: from now on the pointer moves faster
ChangeHand ==
    /\ pointerSpeed = 1
    /\ pointerSpeed' = MaxSpeed
    /\ UNCHANGED <<keystrokeBuffer, mouseBuffer, baselineTyping, baselineMouse,
                   inputsSeen, mouseResult>>
    /\ UNCHANGED notBiometricVars

(***************************************************************************)
(* StressMonitor: stress checks, the break suggestion and the break        *)
(***************************************************************************)
\* detectStressLevel: the score is the share of the three indicators
\* (movement, typing, mouse) that are set; above 0.7 it is high, above 0.4
\* medium
StressIndicators == 3
detectStressLevel(set) ==
    [score |-> <<set, StressIndicators>>,
     stressLevel |-> IF 10 * set > 7 * StressIndicators THEN "high"
                     ELSE IF 10 * set > 4 * StressIndicators THEN "medium"
                     ELSE "low",
     shouldSuggestBreak |-> 10 * set > 7 * StressIndicators]

\* useState defaults, and the interval installed by the effect on mount
MountedStressMonitor ==
    [stressLevel |-> "low", score |-> <<0, StressIndicators>>,
     showBreakSuggestion |-> FALSE,
     breakTimer |-> BreakSeconds, onBreak |-> FALSE,
     intervalOnBreak |-> FALSE, intervalShow |-> FALSE]

\* the interval keeps the closure of the mount
RenderedStaleInterval(next) == next

\* the effect with deps [videoRef, onBreak] runs again when onBreak has
\* changed: the interval is replaced by one that closes over the new render
Rendered(next) ==
    IF next.onBreak # stress.onBreak
    THEN [next EXCEPT !.intervalOnBreak = next.onBreak,
                      !.intervalShow = next.showBreakSuggestion]
    ELSE next

\* the interval fires: detectStressLevel unless its closure is on break
StressCheck ==
    /\ ~stress.intervalOnBreak
    /\ \E set \in 0..StressIndicators :
         LET data == detectStressLevel(set) IN
         stress' = Rendered(
            [stress EXCEPT
               !.stressLevel = data.stressLevel,
               !.score = data.score,
               !.showBreakSuggestion =
                   IF data.shouldSuggestBreak /\ ~stress.intervalShow THEN TRUE ELSE @])
    /\ UNCHANGED <<timedExam, notComponentVars>>

\* "Continue" on the suggestion
DeclineBreak ==
    /\ stress.showBreakSuggestion
    /\ ~stress.onBreak
    /\ stress' = Rendered([stress EXCEPT !.showBreakSuggestion = FALSE])
    /\ UNCHANGED <<timedExam, notComponentVars>>

\* "Yes, Take Break" on the suggestion
handleTakeBreak ==
    /\ stress.showBreakSuggestion
    /\ ~stress.onBreak
    /\ stress' = Rendered([stress EXCEPT !.onBreak = TRUE,
                                         !.showBreakSuggestion = FALSE,
                                         !.breakTimer = BreakSeconds])
    /\ UNCHANGED <<timedExam, notComponentVars>>

\* the timeout of the render with onBreak and breakTimer > 0 fires
BreakTick ==
    /\ stress.onBreak
    /\ stress.breakTimer > 0
    /\ stress' = Rendered([stress EXCEPT !.breakTimer = @ - 1])
    /\ UNCHANGED <<timedExam, notComponentVars>>

\* the effect of the render with breakTimer = 0 calls handleEndBreak
BreakOver ==
    /\ stress.onBreak
    /\ stress.breakTimer = 0
    /\ stress' = Rendered([stress EXCEPT !.onBreak = FALSE,
                                         !.breakTimer = BreakSeconds])
    /\ UNCHANGED <<timedExam, notComponentVars>>

\* "End Break Early"
handleEndBreak ==
    /\ stress.onBreak
    /\ stress.breakTimer > 0
    /\ stress' = Rendered([stress EXCEPT !.onBreak = FALSE,
                                         !.breakTimer = BreakSeconds])
    /\ UNCHANGED <<timedExam, notComponentVars>>

(***************************************************************************)
(* Exam page: the countdown, the answers and the submission                *)
(***************************************************************************)
Questions == 1..NumQuestions
Options == 1..NumOptions

\* useState({}) of answers: no question has an option (0)
NoAnswers == [q \in Questions |-> 0]

\* the page after handleStartExam: the exam is shown with
\* duration_minutes * 60 seconds left and nothing answered; the effect with
\* deps [exam, attemptId] has installed the interval, whose callback calls
\* the handleSubmit of that render (timerAnswers is the answers it closes
\* over). Neither exam nor attemptId changes afterwards, so the interval is
\* never installed again.
StartedExam ==
    [mounted |-> TRUE,
     timeRemaining |-> ExamSeconds,
     answers |-> NoAnswers,
     timerAnswers |-> NoAnswers,
     dialog |-> "none",
     submits |-> <<>>]

\* a radio button of a question is chosen
handleAnswerSelect(q, option) ==
    /\ timedExam.mounted
    /\ timedExam.dialog = "none"
    /\ timedExam' = [timedExam EXCEPT !.answers[q] = option]
    /\ UNCHANGED <<stress, notComponentVars>>

\* the interval fires: one second less, or at prev <= 1 the handleSubmit of
\* the interval's render, which asks window.confirm, and 0
TimerTick ==
    /\ timedExam.mounted
    /\ timedExam.dialog = "none"
    /\ IF timedExam.timeRemaining <= 1
       THEN /\ Len(timedExam.submits) < MaxSubmits
            /\ timedExam' = [timedExam EXCEPT !.timeRemaining = 0,
                                              !.dialog = "timer"]
       ELSE timedExam' = [timedExam EXCEPT !.timeRemaining = @ - 1]
    /\ UNCHANGED <<stress, notComponentVars>>

\* the Submit button: the handleSubmit of the current render, which asks
\* window.confirm
SubmitClick ==
    /\ timedExam.mounted
    /\ timedExam.dialog = "none"
    /\ Len(timedExam.submits) < MaxSubmits
    /\ timedExam' = [timedExam EXCEPT !.dialog = "button"]
    /\ UNCHANGED <<stress, notComponentVars>>

\* the student answers window.confirm: on Cancel handleSubmit returns, on
\* OK it calls examService.submitAttempt(attemptId, answers) with the
\* answers of its render
ConfirmDialog(ok) ==
    /\ timedExam.dialog # "none"
    /\ timedExam' =
          [timedExam EXCEPT
              !.dialog = "none",
              !.submits =
                  IF ok
                  THEN Append(@, [source |-> timedExam.dialog,
                                  answers |-> IF timedExam.dialog = "timer"
                                              THEN timedExam.timerAnswers
                                              ELSE timedExam.answers,
                                  selected |-> timedExam.answers,
                                  state |-> "sent"])
                  ELSE @]
    /\ UNCHANGED <<stress, notComponentVars>>

\* the answer to a submitAttempt request: navigate('/dashboard') unmounts
\* the page and clears the interval; on an error the page stays
SubmitResponse(i, ok) ==
    /\ i \in 1..Len(timedExam.submits)
    /\ timedExam.submits[i].state = "sent"
    /\ timedExam.dialog = "none"
    /\ timedExam' =
          [timedExam EXCEPT
              !.submits[i].state = IF ok THEN "submitted" ELSE "failed",
              !.mounted = IF ok THEN FALSE ELSE @]
    /\ UNCHANGED <<stress, notComponentVars>>

(***************************************************************************)
(* Specifications                                                          *)
(***************************************************************************)
CoreInit ==
    /\ schema \in Schemas
    /\ ledger = <<GenesisBlock(schema)>>
    /\ writers = [w \in Writers |-> IdleWriter]
    /\ clock = 0
    /\ committed = 0
    /\ verification = NoResult
    /\ tamperedSeq = None
    /\ tamperedField = "none"
    /\ status = [a \in Attempts |-> "none"]
    /\ rowLock = [a \in Attempts |-> 0]
    /\ termCount = [a \in Attempts |-> 0]
    /\ page = [a \in Attempts |-> SetupPage]
    /\ requests = [r \in Writers |-> FreeRequest]
    /\ lastHandled = NotHandled
    /\ lastEventTime = [a \in Attempts |-> [e \in MonitorEventTypes |-> 0]]

AdminInit ==
    /\ genesisRuns = 0
    /\ genesisResult = "none"
    /\ examDeleted = FALSE

ReportInit ==
    /\ proctoringEvents = <<>>
    /\ suspiciousQuery = NoQuery
    /\ suspiciousAttempts = <<>>

StartInit ==
    /\ attemptRows = <<>>
    /\ startRequests = [q \in Starters |-> NoStart]

\* the constructor
BiometricInit ==
    /\ keystrokeBuffer = <<>>
    /\ mouseBuffer = <<>>
    /\ baselineTyping = NullProfile
    /\ baselineMouse = NullProfile
    /\ inputsSeen = NoInputs
    /\ pointerSpeed = 1
    /\ mouseResult = NotCalled

ForensicInit ==
    /\ tamperedRows = {}
    /\ scan = NoScan

ComponentInit ==
    /\ stress = MountedStressMonitor
    /\ timedExam = StartedExam

ExtraInit ==
    ReportInit /\ StartInit /\ BiometricInit /\ ForensicInit /\ ComponentInit

Init ==
    /\ CoreInit
    /\ rawSignal = NoSignal
    /\ classifiedEvent = NotClassified
    /\ AdminInit
    /\ ExtraInit

\* concurrent writers on a bootstrapped ledger
LedgerNext ==
    \/ \E w \in Writers : StartAppend(w)
    \/ \E w \in Writers : AppendRead(w)
    \/ \E w \in Writers : AppendCompute(w)
    \/ \E w \in Writers : AppendInsert(w)
    \/ \E w \in Writers : AppendReturn(w)
    \/ Tick
    \/ VerifyIntegrity

SpecLedger == Init /\ [][LedgerNext]_vars

\* one append at a time, an auditor who verifies, and one out-of-band mutation
AuditNext ==
    \/ StartAppend(1)
    \/ AppendRead(1)
    \/ AppendCompute(1)
    \/ AppendInsert(1)
    \/ AppendReturn(1)
    \/ Tick
    \/ VerifyIntegrity
    \/ Tamper

SpecAudit == Init /\ [][AuditNext]_vars

\* the exam sessions against the server; the database is the one whose
\* attempt_status has the value 'terminated'
SessionInit == Init /\ schema = "manual_setup"

Next ==
    \/ \E a \in Attempts : HandleStartExam(a)
    \/ \E a \in Attempts : BrowserEvent(a)
    \/ \E a \in Attempts : MonitorEvent(a)
    \/ \E a \in Attempts : WsAnomaly(a)
    \/ \E a \in Attempts : HandleSubmit(a)
    \/ \E r \in Writers : RequestFails(r)
    \/ \E r \in Writers : ServeEvent(r)
    \/ \E r \in Writers : ServeTerminate(r)
    \/ \E r \in Writers : ServeSubmit(r)
    \/ \E r \in Writers : AppendRead(r)
    \/ \E r \in Writers : AppendCompute(r)
    \/ \E r \in Writers : AppendInsert(r)
    \/ \E r \in Writers : FinishAppend(r)
    \/ \E r \in Writers : Continue(r)
    \/ Tick

Spec == SessionInit /\ [][Next]_vars

\* one append at a time, an auditor, and an admin who runs the genesis
\* initialisation again and deletes the exam
AdminNext ==
    \/ AdminAppend(1)
    \/ AppendRead(1)
    \/ AppendCompute(1)
    \/ AppendInsert(1)
    \/ AppendReturn(1)
    \/ Tick
    \/ VerifyIntegrity
    \/ GenesisInsert
    \/ InitializeGenesis
    \/ DeleteExam

SpecAdmin == Init /\ [][AdminNext]_vars

\* raw signals of every tag and confidence handed to the classifier
ClassifierInit ==
    /\ CoreInit
    /\ schema = "manual_setup"
    /\ rawSignal \in [tag : RawTags, confidence : Confidences]
    /\ classifiedEvent = NotClassified
    /\ AdminInit
    /\ ExtraInit

ClassifierNext == ClassifySignal \/ NextSignal

SpecClassifier == ClassifierInit /\ [][ClassifierNext]_vars

\* an admin asks for the suspicious attempts while events come in
ReportInitial == Init /\ schema = "manual_setup"

ReportNext ==
    \/ LogProctoringEvent
    \/ LoadSuspiciousAttempts
    \/ ServeSuspicious
    \/ SuspiciousFails

SpecReport == ReportInitial /\ [][ReportNext]_vars

\* students start exams concurrently, under either table definition
AttemptsNext ==
    \/ \E q \in Starters : StartAttempt(q)
    \/ \E q \in Starters : ServeStartRead(q)
    \/ \E q \in Starters : ServeStartInsert(q)
    \/ \E q \in Starters : StartReturn(q)
    \/ EndAttempt

SpecAttempts == Init /\ [][AttemptsNext]_vars

\* keystrokes and mouse movements reach the service, and sessions end
BiometricInitial == Init /\ schema = "manual_setup"

BiometricNext == captureKeystroke \/ captureMouseMovement \/ reset

SpecBiometrics == BiometricInitial /\ [][BiometricNext]_vars

\* mouse movements of a hand that may change
MouseNext == captureMouseMovement \/ ChangeHand \/ reset

SpecMouse == BiometricInitial /\ [][MouseNext]_vars

\* one append at a time within one tick of the clock, an auditor, and
\* mutations of several rows
ForensicNext ==
    \/ StartAppend(1)
    \/ AppendRead(1)
    \/ AppendCompute(1)
    \/ AppendInsert(1)
    \/ AppendReturn(1)
    \/ VerifyIntegrity
    \/ TamperBlock

SpecForensics == Init /\ [][ForensicNext]_vars

Appending(w) == writers[w].pc \in {"read", "compute", "insert"}

\* a call is accepted while the ledger has room for every call in flight
AcceptAppend(w) ==
    /\ Len(ledger) + Cardinality({v \in Writers : Appending(v)}) < MaxBlocks
    /\ StartAppend(w)

\* contending writers, each scheduled again and again until its call ends
ContentionNext ==
    \/ \E w \in Writers : AcceptAppend(w)
    \/ \E w \in Writers : AppendRead(w)
    \/ \E w \in Writers : AppendCompute(w)
    \/ \E w \in Writers : AppendInsert(w)
    \/ \E w \in Writers : AppendReturn(w)
    \/ Tick

SpecContention ==
    /\ Init
    /\ [][ContentionNext]_vars
    /\ \A w \in Writers :
          /\ WF_vars(AppendRead(w))
          /\ WF_vars(AppendCompute(w))
          /\ WF_vars(AppendInsert(w))

\* concurrent writers and an auditor whose scan takes time
ScanNext ==
    \/ \E w \in Writers : StartAppend(w)
    \/ \E w \in Writers : AppendRead(w)
    \/ \E w \in Writers : AppendCompute(w)
    \/ \E w \in Writers : AppendInsert(w)
    \/ \E w \in Writers : AppendReturn(w)
    \/ VerifyBegin
    \/ VerifyEnd

SpecScan == Init /\ [][ScanNext]_vars

\* the mounted StressMonitor; its timers fire while it is mounted
StressInitial == Init /\ schema = "manual_setup"

StressNext ==
    \/ StressCheck
    \/ DeclineBreak
    \/ handleTakeBreak
    \/ BreakTick
    \/ BreakOver
    \/ handleEndBreak

SpecStress ==
    /\ StressInitial
    /\ [][StressNext]_vars
    /\ WF_vars(BreakTick)
    /\ WF_vars(BreakOver)

\* an exam in progress on the exam page
TimerInitial == Init /\ schema = "manual_setup"

TimerNext ==
    \/ \E q \in Questions, option \in Options : handleAnswerSelect(q, option)
    \/ TimerTick
    \/ SubmitClick
    \/ \E ok \in BOOLEAN : ConfirmDialog(ok)
    \/ \E i \in 1..MaxSubmits, ok \in BOOLEAN : SubmitResponse(i, ok)

\* the interval fires every second while the page is mounted; a dialog that
\* is open is answered, one way or the other; a request gets its answer
SpecTimer ==
    /\ TimerInitial
    /\ [][TimerNext]_vars
    /\ WF_vars(TimerTick)
    /\ WF_vars(\E ok \in BOOLEAN : ConfirmDialog(ok))
    /\ WF_vars(\E i \in 1..MaxSubmits, ok \in BOOLEAN : SubmitResponse(i, ok))

(***************************************************************************)
(* Properties of the ledger                                                *)
(***************************************************************************)
SeqNumbers(L) == {L[i].sequence_number : i \in 1..Len(L)}
ErrorSeqs(v) == {v.errors[i].sequence_number : i \in 1..Len(v.errors)}
NoAppendInFlight == \A w \in Writers : writers[w].pc = "idle"

\* C1: in every reachable ledger state the stored blocks carry the sequence
\* numbers 0..k, each once, and every block n > 0 has as previous_hash the
\* current_hash of block n-1.
C1_ChainInvariant ==
    /\ SeqNumbers(ledger) = 0..(Len(ledger) - 1)
    /\ \A i, j \in 1..Len(ledger) :
          ledger[j].sequence_number = ledger[i].sequence_number + 1
              => ledger[j].previous_hash = ledger[i].current_hash

\* C2: once N concurrent appends have returned a block, the ledger holds
\* N+1 blocks numbered 0..N, no two blocks share a sequence_number or a
\* previous_hash, and verify() reports no error.
C2_ConcurrentAppends ==
    NoAppendInFlight =>
        /\ Len(ledger) = committed + 1
        /\ SeqNumbers(ledger) = 0..committed
        /\ \A i, j \in 1..Len(ledger) :
              i # j => /\ ledger[i].sequence_number # ledger[j].sequence_number
                       /\ ledger[i].previous_hash # ledger[j].previous_hash
        /\ Verify(ledger, 0, VerifyLimit).errors = <<>>

ContentFields ==
    {"previous_hash", "event_type", "entity_type", "entity_id", "payload",
     "created_at"}

TerminatedBlocks(a) ==
    {i \in 1..Len(ledger) : /\ ledger[i].event_type = "attempt_terminated"
                            /\ ledger[i].entity_id = a}
Quiescent == \A r \in Writers : requests[r].state = "free"

\* the transition to terminated is committed at most once per attempt and
\* leaves exactly one attempt_terminated block
ExactlyOnceTerminated ==
    \A a \in Attempts :
        /\ termCount[a] <= 1
        /\ Cardinality(TerminatedBlocks(a)) <= 1
        /\ status[a] = "terminated" =>
              termCount[a] = 1 /\ Cardinality(TerminatedBlocks(a)) = 1

\* C5: the transition to terminated happens exactly once per attempt and
\* produces exactly one attempt_terminated record, also when auto-terminate
\* events are delivered twice concurrently, and handling a multiple_faces
\* event on a non-terminal attempt gives the terminate action.
C5_TerminateExactlyOnce ==
    /\ ExactlyOnceTerminated
    /\ (lastHandled.event_type = "multiple_faces" /\ lastHandled.status = "in_progress")
          => lastHandled.action = "terminate"

C7_SingleOccurrenceTerminates ==
    (lastHandled.event_type \in AutoTerminateTypes /\ lastHandled.status = "in_progress")
        => lastHandled.action = "terminate"

\* C8: whenever an attempt is observable as terminated (its status reads
\* terminated, a terminate answer has been sent, or the page has told the
\* student that the exam was terminated) the ledger already holds an
\* attempt_terminated block of that attempt carrying the triggering type.
C8_RecordBeforeObservable ==
    \A a \in Attempts :
        (\/ status[a] = "terminated"
         \/ page[a].terminatedShown
         \/ \E r \in Writers : /\ requests[r].attempt_id = a
                               /\ requests[r].result = "terminate")
            => \E i \in TerminatedBlocks(a) : ledger[i].payload \in AutoTerminateTypes

\* C9: every proctoring event that reaches event handling is recorded as a
\* ledger block of its type for its attempt, whatever the type and the state
\* of the attempt: once the requests of the page have been answered the
\* block of the latest handled event is in the ledger.
C9_EveryEventRecorded ==
    (lastHandled.event_type # "none" /\ Quiescent) =>
        \E i \in 1..Len(ledger) :
            /\ ledger[i].event_type = lastHandled.event_type
            /\ ledger[i].entity_id = lastHandled.attempt_id

\* C10: for every terminated attempt the block of the triggering event is in
\* the ledger at a lower sequence number than the attempt_terminated block;
\* when these are the only blocks after genesis the event block is number 1,
\* linked to the genesis hash, and the attempt_terminated block is number 2.
C10_EventBlockBeforeTermination ==
    \A a \in Attempts :
        status[a] = "terminated" =>
            /\ \E j \in TerminatedBlocks(a), i \in 1..Len(ledger) :
                  /\ ledger[i].event_type = ledger[j].payload
                  /\ ledger[i].entity_id = a
                  /\ ledger[i].sequence_number < ledger[j].sequence_number
            /\ Len(ledger) = 3 =>
                  /\ ledger[2].sequence_number = 1
                  /\ ledger[2].previous_hash = GenesisHash
                  /\ ledger[3].sequence_number = 2
                  /\ ledger[3].event_type = "attempt_terminated"

\* a request of the page for an event of type e of attempt a leaves in
\* this step
PassedOn(a, e) ==
    \E r \in Writers :
        /\ requests[r].state = "free"
        /\ requests'[r].state = "sent"
        /\ requests'[r].kind \in {"event", "terminate"}
        /\ requests'[r].attempt_id = a
        /\ requests'[r].event_type = e

\* C11: for every attempt and event type, two raw signals of that type
\* less than two seconds apart give only one classified event and one
\* ledger block, whichever source raised them: when the event passed on
\* last was of the same attempt and type, the next one of that type is
\* passed on no earlier than two seconds after it.
C11_ThrottledPerType ==
    [][\A a \in Attempts, e \in EventTypes :
         (/\ PassedOn(a, e)
          /\ lastHandled.attempt_id = a
          /\ lastHandled.event_type = e
          /\ lastHandled.action \in {"terminate", "log"})
            => lastHandled'.time - lastHandled.time >= ThrottleWindow]_vars

\* C13: no submitted signal is lost: a raw signal whose tag has no severity
\* still ends up in the ledger, as a generic event of its attempt: once the
\* requests of the page have been answered, the ledger holds such a block
\* for the latest handled signal when its tag is unmapped.
C13_UnmappedSignalRecorded ==
    (/\ lastHandled.event_type \in EventTypes \ PROCTORING_EVENTS
     /\ Quiescent) =>
        \E i \in 1..Len(ledger) :
            /\ ledger[i].event_type = GenericEvent
            /\ ledger[i].entity_id = lastHandled.attempt_id

\* the step in which an append fails leaves the ledger as it is
FailedAppendPersistsNothing ==
    [][\A w \in Writers :
          (writers'[w].pc = "failed" /\ writers[w].pc # "failed") =>
              /\ ledger' = ledger
              /\ committed' = committed]_vars

\* C17: an append that fails (SerializationError, or ConflictError after
\* its retries) persists nothing: when it has failed the ledger holds the
\* genesis block and one block for each append that returned a block, and
\* none for the failed call, and the chain still verifies.
C17_FailedAppendLeavesChainValid ==
    \A w \in Writers :
        writers[w].pc = "failed" =>
            /\ Len(ledger) = committed + 1
            /\ \A i \in 1..Len(ledger) :
                  ledger[i].current_hash # NewBlock(writers[w]).current_hash
                      \/ writers[w].err = "ConflictError"
            /\ Verify(ledger, 0, VerifyLimit).is_valid

\* C16: an attempt becomes submitted only through the explicit submission
\* of the student: the step that sets the status to submitted is the
\* answer to a submit request, a submit request is never created by a step
\* that handles a proctoring event, and no such request exists that the
\* submit handler of the page did not send.
C16_SubmittedOnlyBySubmission ==
    [][/\ \A a \in Attempts :
            (status'[a] = "submitted" /\ status[a] # "submitted") =>
                \E r \in Writers :
                    /\ requests[r].kind = "submit"
                    /\ requests[r].attempt_id = a
                    /\ requests[r].state = "sent"
                    /\ requests'[r].state = "responded"
                    /\ requests'[r].result = "ok"
       /\ \A r \in Writers :
            (requests'[r].kind = "submit" /\ requests[r].kind # "submit") =>
                /\ lastHandled' = lastHandled
                /\ page[requests'[r].attempt_id].phase = "exam"
                /\ ~page'[requests'[r].attempt_id].proctoringActive]_vars

C16_Witness ==
    \E a \in Attempts :
        /\ status[a] = "submitted"
        /\ lastHandled.attempt_id = a
        /\ lastHandled.action = "log"
        /\ \E i \in 1..Len(ledger) :
              /\ ledger[i].entity_id = a
              /\ ledger[i].event_type \in EventTypes

(***************************************************************************)
(* Properties of the administration of the ledger                          *)
(***************************************************************************)
GenesisBlocks == {i \in 1..Len(ledger) : ledger[i].sequence_number = 0}

\* C14: bootstrapping is idempotent: running the genesis initialisation
\* again, any number of times, reports no error and leaves the ledger with
\* exactly one genesis block (sequence_number 0, previous_hash null,
\* event_type system_init).
C14_GenesisIdempotent ==
    genesisRuns >= 1 =>
        /\ genesisResult # "error"
        /\ Cardinality(GenesisBlocks) = 1
        /\ \A i \in GenesisBlocks :
              /\ ledger[i].previous_hash = NullHash
              /\ ledger[i].event_type = "system_init"

\* C15: the ledger is append-only: a stored block is still there in every
\* later state with the same sequence_number, previous_hash, current_hash,
\* event_type, entity, payload and created_at; no operation of the system
\* updates or deletes a block.
C15_AppendOnly ==
    [][\A i \in 1..Len(ledger) :
          /\ i <= Len(ledger')
          /\ ledger'[i] = ledger[i]]_vars

(***************************************************************************)
(* Properties of the classifier                                            *)
(***************************************************************************)
\* C12: classify is total over the known raw signal tags: every event type
\* the client can emit has exactly one severity tier in the static table,
\* and a tag that is not in the table makes classify fail with
\* UnknownSignalError instead of giving a default severity.
C12_ClassifyTotal ==
    classifiedEvent # NotClassified =>
        /\ rawSignal.tag \in EmittedTags =>
              /\ classifiedEvent.error = "none"
              /\ classifiedEvent.severity \in SeverityTiers
        /\ rawSignal.tag \notin PROCTORING_EVENTS =>
              classifiedEvent.error = "UnknownSignalError"

(***************************************************************************)
(* Properties of the suspicion aggregator                                  *)
(***************************************************************************)
EventCount(a) ==
    Cardinality({i \in 1..Len(proctoringEvents) : proctoringEvents[i].attempt_id = a})

RECURSIVE ConfidenceTotal(_, _)
ConfidenceTotal(a, n) ==
    IF n = 0 THEN 0
    ELSE (IF proctoringEvents[n].attempt_id = a
          THEN proctoringEvents[n].confidence ELSE 0) + ConfidenceTotal(a, n - 1)

\* the attempts the query asks for, on the table as it is
Suspicious(confidence_threshold, min_event_count) ==
    {a \in ReportAttempts :
        /\ EventCount(a) >= min_event_count
        /\ ConfidenceTotal(a, Len(proctoringEvents))
               >= confidence_threshold * EventCount(a)}

\* C18: listSuspicious returns exactly the attempts whose event count is at
\* least min_event_count and whose average confidence is at least
\* confidence_threshold, each attempt at most once, ordered by
\* non-increasing average confidence, and leaves events, attempts and the
\* ledger unchanged.
C18_ListSuspicious ==
    [][(suspiciousQuery.state = "sent" /\ suspiciousQuery'.state = "answered") =>
          LET result == suspiciousAttempts'
          IN  /\ {result[i].attempt_id : i \in 1..Len(result)}
                     = Suspicious(suspiciousQuery.confidence_threshold,
                                  suspiciousQuery.min_event_count)
              /\ \A i, j \in 1..Len(result) :
                     i # j => result[i].attempt_id # result[j].attempt_id
              /\ \A i \in 1..Len(result) :
                     /\ result[i].suspicious_event_count = EventCount(result[i].attempt_id)
                     /\ result[i].avg_confidence[1]
                            = ConfidenceTotal(result[i].attempt_id, Len(proctoringEvents))
              /\ \A i \in 1..(Len(result) - 1) :
                     AvgGeq(result[i].avg_confidence, result[i + 1].avg_confidence)
              /\ UNCHANGED <<proctoringEvents, status, ledger>>]_vars

\* a list of two attempts in strictly decreasing order of average, and an
\* attempt with events that the thresholds keep out
C18_Witness ==
    /\ suspiciousQuery.state = "answered"
    /\ Len(suspiciousAttempts) = 2
    /\ ~AvgGeq(suspiciousAttempts[2].avg_confidence, suspiciousAttempts[1].avg_confidence)
    /\ suspiciousAttempts[1].attempt_id > suspiciousAttempts[2].attempt_id
    /\ \E a \in ReportAttempts :
         /\ EventCount(a) > 0
         /\ \A i \in 1..2 : suspiciousAttempts[i].attempt_id # a

(***************************************************************************)
(* Properties of exam_attempts                                             *)
(***************************************************************************)
ActiveAttempts(st, e) ==
    {i \in 1..Len(attemptRows) :
        /\ attemptRows[i].student_id = st
        /\ attemptRows[i].exam_id = e
        /\ attemptRows[i].status = "in_progress"}

\* C19: at any time a student has at most one in_progress attempt for a
\* given exam, under any interleaving of start-attempt requests.
C19_OneActiveAttempt ==
    \A st \in Students, e \in Exams : Cardinality(ActiveAttempts(st, e)) <= 1

\* two requests of one student for one exam were both in flight with no
\* active attempt seen; one created the attempt and the constraint refused
\* the other
C19_Witness ==
    \E q, r \in Starters :
        /\ q # r
        /\ startRequests[q].pc = "created"
        /\ startRequests[r].pc = "rejected"
        /\ ~startRequests[r].sawActive
        /\ startRequests[q].student_id = startRequests[r].student_id
        /\ startRequests[q].exam_id = startRequests[r].exam_id
        /\ ActiveAttempts(startRequests[q].student_id, startRequests[q].exam_id) # {}

(***************************************************************************)
(* Properties of the behavioural baselines                                 *)
(***************************************************************************)
IsPrefix(p, q) ==
    /\ Len(p) <= Len(q)
    /\ \A i \in 1..Len(p) : p[i] = q[i]

\* what holds of one baseline and its buffer in every step: once set it
\* stays; it is set from a buffer of exactly `size` inputs, which are all
\* the inputs since the buffers were last empty; it is not left unset when
\* that many inputs are there; and it is cleared only together with
\* everything else that reset() clears
BaselineSetOnce(baseline, baselineNext, buffer, bufferNext, size, profile) ==
    /\ (baseline # NullProfile /\ baselineNext # NullProfile)
           => baselineNext = baseline
    /\ (baseline = NullProfile /\ baselineNext # NullProfile)
           => /\ Len(bufferNext) = size
              /\ bufferNext[1].timestamp = 1
              /\ baselineNext = profile
    /\ (baseline = NullProfile /\ bufferNext # <<>>) => IsPrefix(buffer, bufferNext)
    /\ Len(bufferNext) >= size => baselineNext # NullProfile
    /\ (baseline # NullProfile /\ baselineNext = NullProfile)
           => /\ keystrokeBuffer' = <<>>
              /\ mouseBuffer' = <<>>
              /\ baselineTyping' = NullProfile
              /\ baselineMouse' = NullProfile

\* C20: the typing baseline is established exactly once, from the first 50
\* keystrokes captured after construction or reset(); after it is set, no
\* later captureKeystroke call changes it, and only reset() clears it
\* (likewise the mouse baseline, set once at 100 movements).
C20_BaselineEstablishedOnce ==
    [][/\ BaselineSetOnce(baselineTyping, baselineTyping', keystrokeBuffer,
                          keystrokeBuffer', BaselineKeystrokes,
                          calculateTypingProfile(keystrokeBuffer'))
       /\ BaselineSetOnce(baselineMouse, baselineMouse', mouseBuffer,
                          mouseBuffer', BaselineMovements,
                          calculateMouseProfile(mouseBuffer'))]_vars

\* both baselines are set and inputs went on until the buffers dropped the
\* inputs the baselines were taken from
C20_Witness ==
    /\ baselineTyping = [avgInterval |-> <<BaselineKeystrokes - 1, BaselineKeystrokes - 1>>,
                         sample |-> <<1, BaselineKeystrokes>>]
    /\ Len(keystrokeBuffer) = KeystrokeBufferLimit
    /\ keystrokeBuffer[1].timestamp > 1
    /\ baselineMouse = [avgVelocity |-> Number(100), stdDev |-> Number(0),
                        sample |-> <<1, BaselineMovements>>]
    /\ Len(mouseBuffer) = MouseBufferLimit
    /\ mouseBuffer[1].timestamp > 1

\* the last n of the captures 1..seen, in arrival order
Timestamps(buffer) ==
    [i \in DOMAIN buffer |-> [timestamp |-> buffer[i].timestamp]]

MostRecent(seen, n) ==
    [i \in 1..(IF seen <= n THEN seen ELSE n) |->
        [timestamp |-> (IF seen <= n THEN 0 ELSE seen - n) + i]]

\* C21: after any sequence of captureKeystroke and captureMouseMovement
\* calls, keystrokeBuffer holds at most 100 entries and mouseBuffer at most
\* 200, each being exactly the most recent captures in arrival order
\* (oldest evicted first).
C21_BuffersHoldMostRecent ==
    /\ Len(keystrokeBuffer) <= KeystrokeBufferLimit
    /\ Len(mouseBuffer) <= MouseBufferLimit
    /\ keystrokeBuffer = MostRecent(inputsSeen.keystrokes, KeystrokeBufferLimit)
    /\ Timestamps(mouseBuffer) = MostRecent(inputsSeen.movements, MouseBufferLimit)

\* both buffers are full and each has evicted exactly its oldest entry
C21_Witness ==
    /\ inputsSeen = [keystrokes |-> KeystrokeBufferLimit + 1,
                     movements |-> MouseBufferLimit + 1]
    /\ Len(keystrokeBuffer) = KeystrokeBufferLimit
    /\ keystrokeBuffer[1].timestamp = 2
    /\ Len(mouseBuffer) = MouseBufferLimit
    /\ mouseBuffer[1].timestamp = 2

\* the deviation of two mouse profiles as compareProfiles would give it on
\* the fields a mouse profile has
VelocityDeviation(baseline, current) ==
    compareProfiles([avgInterval |-> baseline.avgVelocity,
                     stdDev |-> baseline.stdDev, sample |-> baseline.sample],
                    [avgInterval |-> current.avgVelocity,
                     stdDev |-> current.stdDev, sample |-> current.sample])

\* the last movements deviate from the mouse baseline by more than 40%
MouseDeviates ==
    /\ mouseResult # NotCalled
    /\ baselineMouse # NullProfile
    /\ Len(mouseBuffer) >= RecentMovements
    /\ GreaterThan(VelocityDeviation(baselineMouse,
                                      calculateMouseProfile(
                                          LastOf(mouseBuffer, RecentMovements))),
                   Number(MouseThreshold))

\* C28: once the mouse baseline is established, captureMouseMovement
\* returns a mouse_pattern_change anomaly whenever the profile of the last
\* 50 movements deviates from the baseline by more than 40%.
C28_MouseAnomalyReturned ==
    MouseDeviates => mouseResult = "mouse_pattern_change"

\* captureMouseMovement returns null whatever the movements are
MouseAnomalyNeverReturned == mouseResult # "mouse_pattern_change"

(***************************************************************************)
(* Properties of the verifier under several mutations                      *)
(***************************************************************************)
\* the result on the page is that of the ledger as it is now
VerifiedNow == verification # NoResult /\ verification = Verify(ledger, 0, VerifyLimit)

VerifyLeavesLedger ==
    [][(scan' # scan \/ verification' # verification) => ledger' = ledger]_vars

\* C23: verify() run concurrently with ongoing appends on an untampered
\* ledger never reports an error and never modifies the ledger: a block
\* appended while the scan is in progress cannot cause a sequence-gap, hash
\* or linkage mismatch to be reported.
C23_ConcurrentVerifyClean ==
    (tamperedSeq = None /\ tamperedRows = {}) =>
        /\ verification.is_valid
        /\ verification.errors = <<>>

OnlyAutoTypesTerminate ==
    /\ \A r \in Writers :
          requests[r].kind = "terminate" => requests[r].event_type \in AutoTerminateTypes
    /\ \A a \in Attempts : \A i \in TerminatedBlocks(a) :
          ledger[i].payload \in AutoTerminateTypes

\* C25: no event whose type is outside {multiple_faces, tab_switch,
\* window_blur} ever terminates an attempt, however many times it occurs:
\* such events are logged; on the client they are sent to logEvent and
\* terminateAttempt is not called.
C25_OtherEventsLoggedOnly ==
    /\ OnlyAutoTypesTerminate
    /\ (lastHandled.event_type \notin AutoTerminateTypes \cup {"none"})
          => lastHandled.action = "log"

\* terminate requests of the page for attempt a that are under way
TerminateRequests(a) ==
    {r \in Writers : /\ requests[r].kind = "terminate"
                     /\ requests[r].attempt_id = a
                     /\ requests[r].state # "free"}

\* C26: the exam session page calls terminateAttempt at most once per
\* attempt: when two auto-terminate events fire back to back (the
\* visibilitychange tab_switch and the window blur of the same tab switch)
\* the proctoringActive guard in autoTerminate lets only the first one send
\* the termination request.
C26_TerminateRequestedOnce ==
    \A a \in Attempts : Cardinality(TerminateRequests(a)) <= 1

(***************************************************************************)
(* Properties of the mindfulness break                                     *)
(***************************************************************************)
\* C27: once a student accepts a mindfulness break, the break always ends:
\* breakTimer counts down from 30 by one per second, stays within 0..30,
\* and when it reaches 0 the break ends automatically (onBreak becomes
\* false, timer reset to 30) unless ended early; while onBreak is true no
\* stress check runs and no new break suggestion is shown.
C27_BreakAlwaysEnds ==
    /\ [](stress.breakTimer \in 0..BreakSeconds)
    /\ [](stress.onBreak => ~stress.showBreakSuggestion /\ stress.intervalOnBreak)
    /\ [][/\ (~stress.onBreak /\ stress'.onBreak) => stress'.breakTimer = BreakSeconds
          /\ (stress.onBreak /\ stress'.onBreak) =>
                 /\ stress'.breakTimer \in {stress.breakTimer, stress.breakTimer - 1}
                 /\ stress'.stressLevel = stress.stressLevel
                 /\ stress'.score = stress.score
          /\ (stress.onBreak /\ ~stress'.onBreak) => stress'.breakTimer = BreakSeconds
          /\ (~stress.onBreak) => stress.breakTimer = BreakSeconds]_vars
    /\ (stress.onBreak /\ stress.breakTimer = 0) ~> ~stress.onBreak
    /\ stress.onBreak ~> ~stress.onBreak

\* the break has run down to its last second
C27_Witness ==
    /\ stress.onBreak
    /\ stress.breakTimer = 0
    /\ stress.stressLevel = "high"
    /\ ~stress.showBreakSuggestion

\* the countdown is at 0 and the page is still that of the exam
Expired == timedExam.mounted /\ timedExam.timeRemaining = 0

CountdownNotNegative == timedExam.timeRemaining \in 0..ExamSeconds

\* the submissions made by the countdown
TimerSubmits ==
    {i \in 1..Len(timedExam.submits) : timedExam.submits[i].source = "timer"}

SubmitCalledOnce == Cardinality(TimerSubmits) <= 1

ExpiryLeadsToSubmit == Expired ~> (timedExam.submits # <<>> \/ ~timedExam.mounted)

\* C29: when the exam countdown reaches zero for an attempt that is still in
\* progress, the attempt is eventually submitted (submitAttempt is called
\* once) without depending on a further choice by the student, and the
\* countdown never goes below 0.
C29_ExpirySubmits ==
    /\ []CountdownNotNegative
    /\ []SubmitCalledOnce
    /\ ExpiryLeadsToSubmit

\* C30: the answers sent by the submission triggered at countdown expiry are
\* the answers the student has selected up to that moment (the same map a
\* manual Submit click at that instant would send), not the answers as they
\* were when the timer was installed.
C30_ExpirySendsSelectedAnswers ==
    \A i \in 1..Len(timedExam.submits) :
        timedExam.submits[i].source = "timer"
            => timedExam.submits[i].answers = timedExam.submits[i].selected

\* a click on Submit sends what is selected
ButtonSendsSelectedAnswers ==
    \A i \in 1..Len(timedExam.submits) :
        timedExam.submits[i].source = "button"
            => timedExam.submits[i].answers = timedExam.submits[i].selected

====
